---- MODULE Spec2Model ----
(***************************************************************************)
(* Model of hitomi-go (src/main.go): the gallery producer, the fan-out     *)
(* loop of main, the download workers, the write worker, the two shared    *)
(* counters, and the pure helpers ImageUrl, Unique and ValidFileName.      *)
(*                                                                         *)
(* Strings are sequences of one-character strings, so that slicing,        *)
(* concatenation and parsing are computed as the code computes them.       *)
(* Reads of the shared counters are modelled as sequentially consistent    *)
(* loads, each load a step of its own.                                     *)
(***************************************************************************)
EXTENDS Integers, Sequences, FiniteSets, TLC

\* ------------------------------------------------------------------ bounds

\* number of (deduplicated) lines of list.txt
NumUrls == 3
\* largest number of files a gallery's metadata lists
MaxImages == 1
\* largest conf.Retry of config.json
MaxRetry == 2
\* number of hash characters before h2 in the inputs of ImageUrl
MaxHashPrefix == 1
\* largest number of lines handed to Unique
MaxListLen == 4
\* largest length of the strings handed to ValidFileName and of the stored file names
MaxNameLen == 3

\* writeQueue = make(chan WriteJob, conf.ThreadNum*100)
WriteQueueFactor == 100

\* ------------------------------------------------------------- characters

HexDigits == <<"0", "1", "2", "3", "4", "5", "6", "7", "8", "9", "a", "b", "c", "d", "e", "f">>
UpperHexDigits == <<"A", "B", "C", "D", "E", "F">>
Letters == <<"a", "b", "c", "d", "e", "f", "g", "h", "i", "j", "k", "l", "m", "n", "o", "p", "q", "r", "s", "t", "u", "v", "w", "x", "y", "z">>
Digits == <<"0", "1", "2", "3", "4", "5", "6", "7", "8", "9">>

\* position of character c in the sequence s, 0 when absent
IndexOf(c, s) == IF \E i \in 1..Len(s) : s[i] = c THEN CHOOSE i \in 1..Len(s) : s[i] = c /\ \A j \in 1..(i - 1) : s[j] # c ELSE 0

\* value of one base-16 digit, -1 when c is no hexadecimal digit
HexVal(c) == IF IndexOf(c, HexDigits) > 0 THEN IndexOf(c, HexDigits) - 1 ELSE IF IndexOf(c, UpperHexDigits) > 0 THEN IndexOf(c, UpperHexDigits) + 9 ELSE -1

\* strconv.Itoa for the small non-negative numbers of the model
Itoa(n) == IF n < 10 THEN <<Digits[n + 1]>> ELSE <<Digits[(n \div 10) + 1], Digits[(n % 10) + 1]>>

\* ---------------------------------------------------------- pure helpers

\* strconv.ParseUint(s, 16, 64) on a sign-less string: the value, -1 on a syntax error
RECURSIVE ParseUint16(_)
ParseUint16(s) ==
    IF Len(s) = 0 THEN -1
    ELSE IF HexVal(s[Len(s)]) < 0 THEN -1
    ELSE IF Len(s) = 1 THEN HexVal(s[1])
    ELSE IF ParseUint16(SubSeq(s, 1, Len(s) - 1)) < 0 THEN -1
    ELSE 16 * ParseUint16(SubSeq(s, 1, Len(s) - 1)) + HexVal(s[Len(s)])

\* strconv.ParseInt(s, 16, 64): an optional sign, then ParseUint
ParseInt16(s) ==
    IF Len(s) = 0 THEN [err |-> TRUE, val |-> 0]
    ELSE LET neg == s[1] = "-"
             rest == IF s[1] \in {"+", "-"} THEN Tail(s) ELSE s
             un == ParseUint16(rest)
         IN  IF un < 0 THEN [err |-> TRUE, val |-> 0]
             ELSE [err |-> FALSE, val |-> IF neg THEN 0 - un ELSE un]

\* filepath.Ext: the suffix from the last dot of the last path element, "" without one
RECURSIVE Ext(_)
Ext(name) ==
    IF Len(name) = 0 THEN <<>>
    ELSE IF name[Len(name)] = "/" THEN <<>>
    ELSE IF name[Len(name)] = "." THEN <<".">>
    ELSE IF Ext(SubSeq(name, 1, Len(name) - 1)) = <<>> THEN <<>>
    ELSE Ext(SubSeq(name, 1, Len(name) - 1)) \o <<name[Len(name)]>>

\* the value a panicking ImageUrl stands for: no string, the goroutine panics
Panic == <<"panic: slice bounds out of range">>

\* img.Hash[len(img.Hash)-1:] and img.Hash[len(img.Hash)-3 : len(img.Hash)-1] panic on a short hash
ImageUrlPanics(image) == Len(image.Hash) < 3

\* numberOfFrontends: 3, or 2 when g < 0x30
NumberOfFrontends(g) == IF g < 48 THEN 2 ELSE 3

\* faulty variant: the clamp of small g is left out
ClampGMissing(g) == g

\* g after "if g < 0x09 { g = 1 }"
ClampG(g) == IF g < 9 THEN 1 ELSE g

\* subDomain: "a" when h2 does not parse, else string(97 + g%numberOfFrontends) + retval
SubDomain(h2, retval) ==
    LET p == ParseInt16(h2)
    IN  IF p.err THEN <<"a">>
        ELSE <<Letters[(ClampG(p.val) % NumberOfFrontends(p.val)) + 1]>> \o retval

\* faulty variant: the webp flag is tested before the avif flag
VariantWebpFirst(image) ==
    IF image.HasWebp = 1 THEN [directory |-> <<"w", "e", "b", "p">>, ext |-> <<".", "w", "e", "b", "p">>, retval |-> <<"a">>]
    ELSE IF image.HasAvif = 1 THEN [directory |-> <<"a", "v", "i", "f">>, ext |-> <<".", "a", "v", "i", "f">>, retval |-> <<"a">>]
    ELSE [directory |-> <<"i", "m", "a", "g", "e", "s">>, ext |-> Ext(image.Name), retval |-> <<"b">>]

\* directory, ext and retval of ImageUrl, chosen by the variant flags
Variant(image) ==
    IF image.HasAvif = 1 THEN [directory |-> <<"a", "v", "i", "f">>, ext |-> <<".", "a", "v", "i", "f">>, retval |-> <<"a">>]
    ELSE IF image.HasWebp = 1 THEN [directory |-> <<"w", "e", "b", "p">>, ext |-> <<".", "w", "e", "b", "p">>, retval |-> <<"a">>]
    ELSE [directory |-> <<"i", "m", "a", "g", "e", "s">>, ext |-> Ext(image.Name), retval |-> <<"b">>]

Scheme == <<"h", "t", "t", "p", "s", ":", "/", "/">>
Host == <<".", "h", "i", "t", "o", "m", "i", ".", "l", "a", "/">>

ImageUrl(image) ==
    IF ImageUrlPanics(image) THEN Panic
    ELSE LET n == Len(image.Hash)
             h1 == SubSeq(image.Hash, n, n)
             h2 == SubSeq(image.Hash, n - 2, n - 1)
             v == Variant(image)
         IN  Scheme \o SubDomain(h2, v.retval) \o Host \o v.directory \o <<"/">> \o h1
                 \o <<"/">> \o h2 \o <<"/">> \o image.Hash \o v.ext

\* faulty variant: the list lacks the backslash
IllegalCharsNoBackslash == <<":", "/", "?", "*", "\"", "<", ">", "|">>

\* illegalChars of ValidFileName
IllegalChars == <<":", "/", "\\", "?", "*", "\"", "<", ">", "|">>

\* strings.ReplaceAll(path, c, "") for a one-character c
ReplaceAllEmpty(path, c) == SelectSeq(path, LAMBDA x : x # c)

\* the loop of ValidFileName over illegalChars[1..k]
RECURSIVE ValidFileNameLoop(_, _)
ValidFileNameLoop(path, k) ==
    IF k = 0 THEN path
    ELSE ReplaceAllEmpty(ValidFileNameLoop(path, k - 1), IllegalChars[k])

ValidFileName(path) == ValidFileNameLoop(path, Len(IllegalChars))

\* strings.Split(fileName, ".")[0]: the part before the first dot
RECURSIVE SplitFirst(_)
SplitFirst(name) ==
    IF Len(name) = 0 THEN <<>>
    ELSE IF Head(name) = "." THEN <<>>
    ELSE <<Head(name)>> \o SplitFirst(Tail(name))

\* fileName of DownloadImageHandler: the stored name, its extension swapped for a variant
WriteFileName(image) ==
    IF image.HasAvif = 1 THEN SplitFirst(image.Name) \o <<".", "a", "v", "i", "f">>
    ELSE IF image.HasWebp = 1 THEN SplitFirst(image.Name) \o <<".", "w", "e", "b", "p">>
    ELSE image.Name

\* faulty variant: only a line equal to the line before it is dropped
RECURSIVE UniqueAdjacent(_)
UniqueAdjacent(strs) ==
    IF Len(strs) <= 1 THEN strs
    ELSE IF strs[Len(strs)] = strs[Len(strs) - 1] THEN UniqueAdjacent(SubSeq(strs, 1, Len(strs) - 1))
    ELSE Append(UniqueAdjacent(SubSeq(strs, 1, Len(strs) - 1)), strs[Len(strs)])

\* keys and list of Unique after the first k iterations of its loop
RECURSIVE UniqueLoop(_, _)
UniqueLoop(strs, k) ==
    IF k = 0 THEN [keys |-> {}, list |-> <<>>]
    ELSE LET r == UniqueLoop(strs, k - 1)
         IN  IF strs[k] \in r.keys THEN r
             ELSE [keys |-> r.keys \cup {strs[k]}, list |-> Append(r.list, strs[k])]

Unique(strs) == UniqueLoop(strs, Len(strs)).list

\* ------------------------------------------------------------------ inputs

\* galleryUrls: the deduplicated lines of list.txt, line u standing for a distinct URL
galleryUrls == [u \in 1..NumUrls |-> u]

\* the id GalleryInfo cuts out of URL u; the metadata carries it as Gallery.Id
GalleryId(u) == Itoa(u)

\* the values json.Unmarshal may give conf: every Retry up to MaxRetry, one download
\* worker (ThreadNum within 1..runtime.NumCPU() is kept as configured)
Confs == {[SavePath |-> <<"d", "/">>, Retry |-> r, ThreadNum |-> 1] : r \in 0..MaxRetry}

\* images a gallery's metadata may list: one with a usable hash, one whose hash is too short
GoodImage == [Name |-> <<"p", ".", "j">>, Hash |-> <<"0", "0", "f">>, HasWebp |-> 0, HasAvif |-> 0]
ShortImage == [Name |-> <<"q", ".", "j">>, Hash |-> <<"0", "f">>, HasWebp |-> 0, HasAvif |-> 1]

\* files lists of the metadata: up to MaxImages usable images, or a usable image followed
\* by one with a short hash
FileLists == {[k \in 1..n |-> GoodImage] : n \in 0..MaxImages} \cup {<<GoodImage, ShortImage>>}

\* the largest number of files of a list
MaxFiles == MaxImages + 1

\* title, japanese_title and language the server holds for URL u: of three consecutive
\* galleries the last two give the same directory, the first another one
Catalogue(u) ==
    IF u % 3 = 2 THEN [Title |-> <<"a">>, JpTitle |-> <<>>, Lang |-> <<>>]
    ELSE IF u % 3 = 0 THEN [Title |-> <<"b">>, JpTitle |-> <<"a", "?">>, Lang |-> <<>>]
    ELSE [Title |-> <<"a">>, JpTitle |-> <<>>, Lang |-> <<"e", "n">>]

\* the Gallery values json.Unmarshal may produce for URL u, gallery.Url set by the producer
Galleries(u) ==
    { [Id |-> GalleryId(u), Title |-> Catalogue(u).Title, JpTitle |-> Catalogue(u).JpTitle,
       Lang |-> Catalogue(u).Lang, Files |-> f, Url |-> galleryUrls[u]] : f \in FileLists }

\* inputs of the ImageUrl specification: the last three hash characters range over
\* hexadecimal digits, signs and a non-digit, after a prefix of at most MaxHashPrefix
\* characters; hashes of fewer than three characters are inputs too
H2Chars == {"0", "1", "2", "3", "4", "5", "6", "7", "8", "9", "a", "b", "c", "d", "e", "f", "F", "+", "-", "g"}
H1Chars == {"0", "e"}
FlagValues == {0, 1, 2}
HashPrefixes == {[k \in 1..n |-> "c"] : n \in 0..MaxHashPrefix}
Hashes ==
    {p \o <<a, b, c>> : p \in HashPrefixes, a \in H2Chars, b \in H2Chars, c \in H1Chars}
        \cup {<<>>, <<"0">>, <<"0", "f">>}
Names == {<<"p", ".", "j">>, <<"p">>, <<"a", ".", "b", ".", "c">>, <<"d", ".", "e", "/", "f">>}
UrlImages == [Name : Names, Hash : Hashes, HasWebp : FlagValues, HasAvif : FlagValues]

\* all sequences over the set S of length at most n
SeqsUpTo(S, n) == UNION {[1..k -> S] : k \in 0..n}

\* inputs of the Unique specification: the lines strings.Split may give, the empty line
\* among them
Lines == {<<>>, <<"a">>, <<"b">>}
StrSlices == SeqsUpTo(Lines, MaxListLen)

\* inputs of the ValidFileName specification: strings over the nine illegal characters,
\* a letter and the dot
PathChars == {":", "/", "\\", "?", "*", "\"", "<", ">", "|", "a", "."}
Paths == SeqsUpTo(PathChars, MaxNameLen)

\* inputs of the specification of the WriteJob's target path: stored file names with no,
\* one and several dots, each with every combination of the variant flags
StoredNames == Names \cup SeqsUpTo({"a", "."}, MaxNameLen)
TargetImages == [Name : StoredNames, Hash : {<<"0", "0", "f">>}, HasWebp : FlagValues, HasAvif : FlagValues]

\* the value of a result variable before the call
NoResult == <<"no result yet">>

\* ------------------------------------------------------------------- state

VARIABLES
    conf,                 \* the configuration, fixed once loaded
    producerIdx,          \* index of the URL the producer goroutine resolves next
    galleryQueue,         \* chan Gallery, capacity conf.ThreadNum
    queue,                \* chan Job, capacity conf.ThreadNum
    writeQueue,           \* chan WriteJob, capacity conf.ThreadNum*100
    downloadingCount,     \* the in-flight counter
    downloadStartCount,   \* the started counter
    mainPc,               \* position of main: "recv", "mkdir", "emit", "compare", "poll", "done"
    i,                    \* loop variable of main's fan-out loop (1-based)
    gallery,              \* <<g>>: the gallery main holds, <<>> when none
    savePath,             \* savePath of the running DownloadGallery
    nextImg,              \* index into gallery.Files of the next job to send
    fs,                   \* directories created so far
    workerPc,             \* per worker: "select", "inc", "incStart", "attempt", "check", "checkStart", "exit"
    workerJob,            \* per worker: <<job>> while handling one, else <<>>
    tries,                \* per worker: loop variable of DownloadImageHandler
    writerPc,             \* write worker: "select", "write", "check", "checkStart", "exit"
    writerJob,            \* <<writeJob>> while handling one, else <<>>
    panicked,             \* a goroutine panicked: the process is gone
    resolution,           \* history: per URL "pending", "failed" or "ok", and its image count
    emitted,              \* history: per URL the number of jobs sent to queue
    mkdirFailed,          \* history: some MkdirAll returned an error
    takes,                \* history: per job how many times a worker received it
    hist,                 \* history: per worker the GETs, failures, WriteJobs and log lines of its job
    img,                  \* input of the ImageUrl specification
    url,                  \* result of ImageUrl(img), <<>> before the call
    strSlice,             \* input of the Unique specification
    list,                 \* result of Unique(strSlice), NoResult before the call
    title,                \* input of the ValidFileName specification
    validName,            \* result of ValidFileName(title), NoResult before the call
    fileName              \* WriteJob.FileName made for img, NoResult before it is made

pipelineVars == <<conf, producerIdx, galleryQueue, queue, writeQueue, downloadingCount, downloadStartCount,
                  mainPc, i, gallery, savePath, nextImg, fs, workerPc, workerJob, tries,
                  writerPc, writerJob, panicked, resolution, emitted, mkdirFailed, takes, hist>>

urlVars == <<img, url>>

uniqueVars == <<strSlice, list>>

nameVars == <<title, validName>>

targetVars == <<fileName>>

pureVars == <<urlVars, uniqueVars, nameVars, targetVars>>

vars == <<pipelineVars, pureVars>>

Workers == 1..conf.ThreadNum

NoHist == [gets |-> 0, fails |-> 0, wjs |-> 0, logs |-> 0]

NoImage == [Name |-> <<>>, Hash |-> <<>>, HasWebp |-> 0, HasAvif |-> 0]

\* the state after main has made the channels and started the goroutines (lines 91-116)
InitPipeline ==
    /\ conf \in Confs
    /\ producerIdx = 1
    /\ galleryQueue = <<>>
    /\ queue = <<>>
    /\ writeQueue = <<>>
    /\ downloadingCount = 0
    /\ downloadStartCount = 0
    /\ mainPc = "recv"
    /\ i = 1
    /\ gallery = <<>>
    /\ savePath = <<>>
    /\ nextImg = 1
    /\ fs = {}
    /\ workerPc = [w \in Workers |-> "select"]
    /\ workerJob = [w \in Workers |-> <<>>]
    /\ tries = [w \in Workers |-> 0]
    /\ writerPc = "select"
    /\ writerJob = <<>>
    /\ panicked = FALSE
    /\ resolution = [u \in 1..NumUrls |-> [st |-> "pending", n |-> 0]]
    /\ emitted = [u \in 1..NumUrls |-> 0]
    /\ mkdirFailed = FALSE
    /\ takes = [u \in 1..NumUrls |-> [n \in 1..MaxFiles |-> 0]]
    /\ hist = [w \in Workers |-> NoHist]

\* the pure-function specifications at rest
IdleUrl == img = NoImage /\ url = <<>>
IdleUnique == strSlice = <<>> /\ list = NoResult
IdleName == title = <<>> /\ validName = NoResult
IdleTarget == fileName = NoResult

Init ==
    /\ InitPipeline
    /\ IdleUrl
    /\ IdleUnique
    /\ IdleName
    /\ IdleTarget

\* ------------------------------------------------------- gallery producer

\* one iteration of the producer goroutine: GalleryInfo(url) fails and is logged, or
\* returns a gallery that is sent to galleryQueue (the send waits for room)
ProducerResolve ==
    /\ ~panicked
    /\ producerIdx <= NumUrls
    /\ \E ok \in BOOLEAN :
         IF ok
         THEN /\ Len(galleryQueue) < conf.ThreadNum
              /\ \E g \in Galleries(producerIdx) :
                   /\ galleryQueue' = Append(galleryQueue, g)
                   /\ resolution' = [resolution EXCEPT ![producerIdx] = [st |-> "ok", n |-> Len(g.Files)]]
         ELSE /\ resolution' = [resolution EXCEPT ![producerIdx] = [st |-> "failed", n |-> 0]]
              /\ UNCHANGED galleryQueue
    /\ producerIdx' = producerIdx + 1
    /\ UNCHANGED <<conf, queue, writeQueue, downloadingCount, downloadStartCount, mainPc, i,
                   gallery, savePath, nextImg, fs, workerPc, workerJob, tries, writerPc,
                   writerJob, panicked, emitted, mkdirFailed, takes, hist, pureVars>>

\* ------------------------------------------------------------ main, fan-out

\* gallery := <-galleryQueue
MainReceive ==
    /\ ~panicked
    /\ mainPc = "recv"
    /\ galleryQueue # <<>>
    /\ gallery' = <<Head(galleryQueue)>>
    /\ galleryQueue' = Tail(galleryQueue)
    /\ mainPc' = "mkdir"
    /\ UNCHANGED <<conf, producerIdx, queue, writeQueue, downloadingCount, downloadStartCount, i,
                   savePath, nextImg, fs, workerPc, workerJob, tries, writerPc, writerJob,
                   panicked, resolution, emitted, mkdirFailed, takes, hist, pureVars>>

\* lang and title of DownloadGallery
GalleryLang(g) == IF g.Lang = <<>> THEN <<"n", "u", "l", "l">> ELSE g.Lang
GalleryTitle(g) == IF g.JpTitle = <<>> THEN g.Title ELSE g.JpTitle

\* conf.SavePath + lang + "/" + ValidFileName(title)
BasePath(g) == conf.SavePath \o GalleryLang(g) \o <<"/">> \o ValidFileName(GalleryTitle(g))

\* conf.SavePath + lang + "/" + ValidFileName(title) + " - " + gallery.Id
SuffixedPath(g) == BasePath(g) \o <<" ", "-", " ">> \o g.Id

\* what os.MkdirAll(path) may return: nil for a directory that exists, else nil (the
\* directory is made), an already-exists error or another error
MkdirAllResults(path, dirs) == IF path \in dirs THEN {"ok"} ELSE {"ok", "exist", "error"}

\* lines 147-158 of DownloadGallery for the results r1, r2 of the two MkdirAll calls:
\* whether the function goes on to the job loop, its savePath, and the directories
DownloadGalleryDirs(g, r1, r2, dirs) ==
    IF r1 = "ok" THEN [proceed |-> TRUE, savePath |-> BasePath(g), dirs |-> dirs \cup {BasePath(g)}]
    ELSE IF r1 = "exist"
    THEN [proceed |-> FALSE, savePath |-> SuffixedPath(g),
          dirs |-> IF r2 = "ok" THEN dirs \cup {SuffixedPath(g)} ELSE dirs]
    ELSE [proceed |-> FALSE, savePath |-> BasePath(g), dirs |-> dirs]

\* DownloadGallery up to the job loop
DownloadGalleryMkdir ==
    /\ ~panicked
    /\ mainPc = "mkdir"
    /\ \E r1 \in MkdirAllResults(BasePath(gallery[1]), fs) :
       \E r2 \in (IF r1 = "exist" THEN MkdirAllResults(SuffixedPath(gallery[1]), fs) ELSE {"ok"}) :
         LET d == DownloadGalleryDirs(gallery[1], r1, r2, fs)
         IN  /\ fs' = d.dirs
             /\ savePath' = d.savePath
             /\ mainPc' = IF d.proceed THEN "emit" ELSE "compare"
             /\ mkdirFailed' = (mkdirFailed \/ r1 # "ok")
    /\ nextImg' = 1
    /\ UNCHANGED <<conf, producerIdx, galleryQueue, queue, writeQueue, downloadingCount,
                   downloadStartCount, i, gallery, workerPc, workerJob, tries, writerPc,
                   writerJob, panicked, resolution, emitted, takes, hist, pureVars>>

\* faulty variant: the files are gone through from the last to the first
MakeJobReversed(g, n, path) ==
    [Image |-> g.Files[Len(g.Files) + 1 - n], Gallery |-> [Id |-> g.Id, Url |-> g.Url], SavePath |-> path,
     n |-> Len(g.Files) + 1 - n]

\* the Job of image n of gallery g
MakeJob(g, n, path) == [Image |-> g.Files[n], Gallery |-> [Id |-> g.Id, Url |-> g.Url], SavePath |-> path, n |-> n]

\* one iteration of the job loop of DownloadGallery: queue <- job (the send waits for room)
DownloadGalleryEmit ==
    /\ ~panicked
    /\ mainPc = "emit"
    /\ nextImg <= Len(gallery[1].Files)
    /\ Len(queue) < conf.ThreadNum
    /\ queue' = Append(queue, MakeJob(gallery[1], nextImg, savePath))
    /\ nextImg' = nextImg + 1
    /\ emitted' = [emitted EXCEPT ![gallery[1].Url] = @ + 1]
    /\ UNCHANGED <<conf, producerIdx, galleryQueue, writeQueue, downloadingCount, downloadStartCount,
                   mainPc, i, gallery, savePath, fs, workerPc, workerJob, tries, writerPc,
                   writerJob, panicked, resolution, mkdirFailed, takes, hist, pureVars>>

\* if gallery.Url == galleryUrls[i] { break }
MainBreaks(g, k) == g.Url = galleryUrls[k]

\* DownloadGallery has returned: the test at the end of main's loop body
MainCompare ==
    /\ ~panicked
    /\ \/ mainPc = "compare"
       \/ mainPc = "emit" /\ nextImg > Len(gallery[1].Files)
    /\ IF MainBreaks(gallery[1], i)
       THEN mainPc' = "poll" /\ i' = i
       ELSE mainPc' = "recv" /\ i' = i + 1
    /\ gallery' = <<>>
    /\ savePath' = <<>>
    /\ nextImg' = 1
    /\ UNCHANGED <<conf, producerIdx, galleryQueue, queue, writeQueue, downloadingCount,
                   downloadStartCount, fs, workerPc, workerJob, tries, writerPc, writerJob,
                   panicked, resolution, emitted, mkdirFailed, takes, hist, pureVars>>

\* the condition of main's last loop
MainSeesFinish(inFlight, started) == inFlight = 0

\* for { if downloadingCount == 0 { log.Println("Download Finish"); break } }
MainFinish ==
    /\ ~panicked
    /\ mainPc = "poll"
    /\ MainSeesFinish(downloadingCount, downloadStartCount)
    /\ mainPc' = "done"
    /\ UNCHANGED <<conf, producerIdx, galleryQueue, queue, writeQueue, downloadingCount,
                   downloadStartCount, i, gallery, savePath, nextImg, fs, workerPc, workerJob,
                   tries, writerPc, writerJob, panicked, resolution, emitted, mkdirFailed,
                   takes, hist, pureVars>>

\* --------------------------------------------------------- download workers

\* select { case job := <-queue: ...; default: } of DownloadImageWorker
DownloadImageWorkerSelect(w) ==
    /\ ~panicked
    /\ workerPc[w] = "select"
    /\ IF queue # <<>>
       THEN /\ workerJob' = [workerJob EXCEPT ![w] = <<Head(queue)>>]
            /\ queue' = Tail(queue)
            /\ workerPc' = [workerPc EXCEPT ![w] = "inc"]
            /\ takes' = [takes EXCEPT ![Head(queue).Gallery.Url][Head(queue).n] = @ + 1]
       ELSE /\ workerPc' = [workerPc EXCEPT ![w] = "check"]
            /\ UNCHANGED <<workerJob, queue, takes>>
    /\ hist' = [hist EXCEPT ![w] = NoHist]
    /\ UNCHANGED <<conf, producerIdx, galleryQueue, writeQueue, downloadingCount, downloadStartCount,
                   mainPc, i, gallery, savePath, nextImg, fs, tries, writerPc, writerJob,
                   panicked, resolution, emitted, mkdirFailed, pureVars>>

\* atomic.AddInt64(&downloadingCount, 1)
DownloadImageHandlerInc(w) ==
    /\ ~panicked
    /\ workerPc[w] = "inc"
    /\ downloadingCount' = downloadingCount + 1
    /\ workerPc' = [workerPc EXCEPT ![w] = "incStart"]
    /\ UNCHANGED <<conf, producerIdx, galleryQueue, queue, writeQueue, downloadStartCount, mainPc, i,
                   gallery, savePath, nextImg, fs, workerJob, tries, writerPc, writerJob,
                   panicked, resolution, emitted, mkdirFailed, takes, hist, pureVars>>

\* atomic.AddInt64(&downloadStartCount, 1); for tries := 1
DownloadImageHandlerIncStart(w) ==
    /\ ~panicked
    /\ workerPc[w] = "incStart"
    /\ downloadStartCount' = downloadStartCount + 1
    /\ tries' = [tries EXCEPT ![w] = 1]
    /\ workerPc' = [workerPc EXCEPT ![w] = "attempt"]
    /\ UNCHANGED <<conf, producerIdx, galleryQueue, queue, writeQueue, downloadingCount, mainPc, i,
                   gallery, savePath, nextImg, fs, workerJob, writerPc, writerJob, panicked,
                   resolution, emitted, mkdirFailed, takes, hist, pureVars>>

\* faulty variant: the job is given up one attempt early
GivesUpEarly(t) == t >= conf.Retry

\* if tries > conf.Retry: the job is given up after this failed attempt
GivesUp(t) == t > conf.Retry

\* the body of the response to a successful GET of the job's image
ResponseBody(job) == <<job.Gallery.Url, job.n>>

\* the WriteJob of a successful download: Content is res.Body(), a slice of the buffer of
\* the response and no copy, given here by the bytes the buffer holds; Response records
\* the body the WriteJob was made from (history)
MakeWriteJob(job) ==
    [Content |-> ResponseBody(job), Response |-> ResponseBody(job),
     FileName |-> job.SavePath \o <<"/">> \o WriteFileName(job.Image)]

\* no buffer of a WriteJob: the response is read into a buffer of its own
FreshBuffer == <<>>

\* the buffer the pool hands out first: the one released last, with
\* fasthttp.ReleaseResponse(res) right after the newest WriteJob of q was sent
PooledBuffers(q) == IF q = <<>> THEN {} ELSE {q[Len(q)].Content}

\* the WriteJobs of q after a response with the given body has been read into buffer buf:
\* every Content that points into buf now shows that body
ReadInto(q, buf, body) ==
    [k \in 1..Len(q) |-> IF q[k].Content = buf THEN [q[k] EXCEPT !.Content = body] ELSE q[k]]

\* one iteration of the loop of DownloadImageHandler: the request is built (ImageUrl may
\* panic), the GET succeeds (status 200, content length > 0) or fails. The response of a
\* successful GET is read into a buffer from fasthttp's pool: a fresh one, or one that
\* was released while a WriteJob not yet written still points into it
DownloadImageHandlerAttempt(w) ==
    /\ ~panicked
    /\ workerPc[w] = "attempt"
    /\ IF ImageUrl(workerJob[w][1].Image) = Panic
       THEN /\ panicked' = TRUE
            /\ UNCHANGED <<writeQueue, writerJob, downloadingCount, workerPc, workerJob, tries, hist>>
       ELSE /\ UNCHANGED panicked
            /\ \E success \in BOOLEAN :
                 IF success
                 THEN /\ Len(writeQueue) < conf.ThreadNum * WriteQueueFactor
                      /\ \E buf \in PooledBuffers(writerJob \o writeQueue) \cup {FreshBuffer} :
                           /\ writeQueue' = Append(ReadInto(writeQueue, buf, ResponseBody(workerJob[w][1])),
                                                   MakeWriteJob(workerJob[w][1]))
                           /\ writerJob' = ReadInto(writerJob, buf, ResponseBody(workerJob[w][1]))
                      /\ hist' = [hist EXCEPT ![w].gets = @ + 1, ![w].wjs = @ + 1]
                      /\ workerPc' = [workerPc EXCEPT ![w] = "check"]
                      /\ workerJob' = [workerJob EXCEPT ![w] = <<>>]
                      /\ tries' = [tries EXCEPT ![w] = 0]
                      /\ UNCHANGED downloadingCount
                 ELSE IF GivesUp(tries[w])
                 THEN /\ hist' = [hist EXCEPT ![w].gets = @ + 1, ![w].fails = @ + 1, ![w].logs = @ + 1]
                      /\ downloadingCount' = downloadingCount - 1
                      /\ workerPc' = [workerPc EXCEPT ![w] = "check"]
                      /\ workerJob' = [workerJob EXCEPT ![w] = <<>>]
                      /\ tries' = [tries EXCEPT ![w] = 0]
                      /\ UNCHANGED <<writeQueue, writerJob>>
                 ELSE /\ hist' = [hist EXCEPT ![w].gets = @ + 1, ![w].fails = @ + 1]
                      /\ tries' = [tries EXCEPT ![w] = @ + 1]
                      /\ UNCHANGED <<writeQueue, writerJob, downloadingCount, workerPc, workerJob>>
    /\ UNCHANGED <<conf, producerIdx, galleryQueue, queue, downloadStartCount, mainPc, i, gallery,
                   savePath, nextImg, fs, writerPc, resolution, emitted,
                   mkdirFailed, takes, pureVars>>

\* faulty variant: the started counter is not required to be positive
SeesStartedOrNone(started) == started >= 0

\* first operand of "downloadingCount == 0 && downloadStartCount > 0"
SeesNoneInFlight(inFlight) == inFlight = 0

\* second operand of "downloadingCount == 0 && downloadStartCount > 0"
SeesStarted(started) == started > 0

\* the load of downloadingCount at the end of the loop body of DownloadImageWorker
DownloadImageWorkerCheck(w) ==
    /\ ~panicked
    /\ workerPc[w] = "check"
    /\ workerPc' = [workerPc EXCEPT ![w] = IF SeesNoneInFlight(downloadingCount) THEN "checkStart" ELSE "select"]
    /\ hist' = [hist EXCEPT ![w] = NoHist]
    /\ UNCHANGED <<conf, producerIdx, galleryQueue, queue, writeQueue, downloadingCount,
                   downloadStartCount, mainPc, i, gallery, savePath, nextImg, fs, workerJob,
                   tries, writerPc, writerJob, panicked, resolution, emitted, mkdirFailed,
                   takes, pureVars>>

\* the load of downloadStartCount that follows, and the break
DownloadImageWorkerCheckStart(w) ==
    /\ ~panicked
    /\ workerPc[w] = "checkStart"
    /\ workerPc' = [workerPc EXCEPT ![w] = IF SeesStarted(downloadStartCount) THEN "exit" ELSE "select"]
    /\ UNCHANGED <<conf, producerIdx, galleryQueue, queue, writeQueue, downloadingCount,
                   downloadStartCount, mainPc, i, gallery, savePath, nextImg, fs, workerJob,
                   tries, writerPc, writerJob, panicked, resolution, emitted, mkdirFailed,
                   takes, hist, pureVars>>

\* -------------------------------------------------------------- write worker

\* select { case job := <-writeQueue: ...; default: } of WriteWorker
WriteWorkerSelect ==
    /\ ~panicked
    /\ writerPc = "select"
    /\ IF writeQueue # <<>>
       THEN /\ writerJob' = <<Head(writeQueue)>>
            /\ writeQueue' = Tail(writeQueue)
            /\ writerPc' = "write"
       ELSE /\ writerPc' = "check"
            /\ UNCHANGED <<writerJob, writeQueue>>
    /\ UNCHANGED <<conf, producerIdx, galleryQueue, queue, downloadingCount, downloadStartCount,
                   mainPc, i, gallery, savePath, nextImg, fs, workerPc, workerJob, tries,
                   panicked, resolution, emitted, mkdirFailed, takes, hist, pureVars>>

\* faulty variant: the counter is decremented only when the write succeeded
WriterHandlerSuccessOnly ==
    /\ ~panicked
    /\ writerPc = "write"
    /\ \E written \in BOOLEAN : downloadingCount' = IF written THEN downloadingCount - 1 ELSE downloadingCount
    /\ writerJob' = <<>>
    /\ writerPc' = "check"
    /\ UNCHANGED <<conf, producerIdx, galleryQueue, queue, writeQueue, downloadStartCount, mainPc, i,
                   gallery, savePath, nextImg, fs, workerPc, workerJob, tries, panicked,
                   resolution, emitted, mkdirFailed, takes, hist, pureVars>>

\* WriterHandler: ioutil.WriteFile succeeds or fails (and is logged); either way
\* atomic.AddInt64(&downloadingCount, -1)
WriterHandler ==
    /\ ~panicked
    /\ writerPc = "write"
    /\ downloadingCount' = downloadingCount - 1
    /\ writerJob' = <<>>
    /\ writerPc' = "check"
    /\ UNCHANGED <<conf, producerIdx, galleryQueue, queue, writeQueue, downloadStartCount, mainPc, i,
                   gallery, savePath, nextImg, fs, workerPc, workerJob, tries, panicked,
                   resolution, emitted, mkdirFailed, takes, hist, pureVars>>

\* the load of downloadingCount at the end of the loop body of WriteWorker
WriteWorkerCheck ==
    /\ ~panicked
    /\ writerPc = "check"
    /\ writerPc' = IF SeesNoneInFlight(downloadingCount) THEN "checkStart" ELSE "select"
    /\ UNCHANGED <<conf, producerIdx, galleryQueue, queue, writeQueue, downloadingCount,
                   downloadStartCount, mainPc, i, gallery, savePath, nextImg, fs, workerPc,
                   workerJob, tries, writerJob, panicked, resolution, emitted, mkdirFailed,
                   takes, hist, pureVars>>

\* the load of downloadStartCount that follows, and the break
WriteWorkerCheckStart ==
    /\ ~panicked
    /\ writerPc = "checkStart"
    /\ writerPc' = IF SeesStarted(downloadStartCount) THEN "exit" ELSE "select"
    /\ UNCHANGED <<conf, producerIdx, galleryQueue, queue, writeQueue, downloadingCount,
                   downloadStartCount, mainPc, i, gallery, savePath, nextImg, fs, workerPc,
                   workerJob, tries, writerJob, panicked, resolution, emitted, mkdirFailed,
                   takes, hist, pureVars>>

\* ------------------------------------------------------------- specification

Producer == ProducerResolve

Main == MainReceive \/ DownloadGalleryMkdir \/ DownloadGalleryEmit \/ MainCompare \/ MainFinish

DownloadImageWorker(w) ==
    \/ DownloadImageWorkerSelect(w)
    \/ DownloadImageHandlerInc(w)
    \/ DownloadImageHandlerIncStart(w)
    \/ DownloadImageHandlerAttempt(w)
    \/ DownloadImageWorkerCheck(w)
    \/ DownloadImageWorkerCheckStart(w)

WriteWorker == WriteWorkerSelect \/ WriterHandler \/ WriteWorkerCheck \/ WriteWorkerCheckStart

Next ==
    \/ ProducerResolve
    \/ MainReceive
    \/ DownloadGalleryMkdir
    \/ DownloadGalleryEmit
    \/ MainCompare
    \/ MainFinish
    \/ \E w \in Workers : DownloadImageWorkerSelect(w)
    \/ \E w \in Workers : DownloadImageHandlerInc(w)
    \/ \E w \in Workers : DownloadImageHandlerIncStart(w)
    \/ \E w \in Workers : DownloadImageHandlerAttempt(w)
    \/ \E w \in Workers : DownloadImageWorkerCheck(w)
    \/ \E w \in Workers : DownloadImageWorkerCheckStart(w)
    \/ WriteWorkerSelect
    \/ WriterHandler
    \/ WriteWorkerCheck
    \/ WriteWorkerCheckStart

Spec == Init /\ [][Next]_vars

\* ------------------------------------------------- specification of ImageUrl

InitUrl ==
    /\ InitPipeline
    /\ conf.Retry = 0
    /\ img \in UrlImages
    /\ url = <<>>
    /\ IdleUnique
    /\ IdleName
    /\ IdleTarget

\* the call ImageUrl(img)
CallImageUrl ==
    /\ url = <<>>
    /\ url' = ImageUrl(img)
    /\ UNCHANGED <<img, pipelineVars, uniqueVars, nameVars, targetVars>>

\* the same image with other variant flags, and the call on it
ToggleFlags ==
    /\ url # <<>>
    /\ \E w \in FlagValues, a \in FlagValues :
         /\ img' = [img EXCEPT !.HasWebp = w, !.HasAvif = a]
         /\ img' # img
    /\ url' = ImageUrl(img')
    /\ UNCHANGED <<pipelineVars, uniqueVars, nameVars, targetVars>>

NextUrl == CallImageUrl \/ ToggleFlags

SpecUrl == InitUrl /\ [][NextUrl]_vars

\* --------------------------------------------------- specification of Unique

InitUnique ==
    /\ InitPipeline
    /\ conf.Retry = 0
    /\ IdleUrl
    /\ IdleName
    /\ IdleTarget
    /\ strSlice \in StrSlices
    /\ list = NoResult

\* the call Unique(strSlice)
CallUnique ==
    /\ list = NoResult
    /\ list' = Unique(strSlice)
    /\ UNCHANGED <<strSlice, pipelineVars, urlVars, nameVars, targetVars>>

\* the call of Unique on its own result
CallUniqueAgain ==
    /\ list # NoResult
    /\ strSlice' = list
    /\ list' = Unique(list)
    /\ UNCHANGED <<pipelineVars, urlVars, nameVars, targetVars>>

NextUnique == CallUnique \/ CallUniqueAgain

SpecUnique == InitUnique /\ [][NextUnique]_vars

\* -------------------------------------------- specification of ValidFileName

InitName ==
    /\ InitPipeline
    /\ conf.Retry = 0
    /\ IdleUrl
    /\ IdleUnique
    /\ IdleTarget
    /\ title \in Paths
    /\ validName = NoResult

\* the call ValidFileName(title)
CallValidFileName ==
    /\ validName = NoResult
    /\ validName' = ValidFileName(title)
    /\ UNCHANGED <<title, pipelineVars, urlVars, uniqueVars, targetVars>>

\* the call of ValidFileName on its own result
CallValidFileNameAgain ==
    /\ validName # NoResult
    /\ title' = validName
    /\ validName' = ValidFileName(validName)
    /\ UNCHANGED <<pipelineVars, urlVars, uniqueVars, targetVars>>

NextName == CallValidFileName \/ CallValidFileNameAgain

SpecName == InitName /\ [][NextName]_vars

\* ------------------------------- specification of the WriteJob's target path

\* a gallery whose only file is the given image, and the directory its jobs are saved to
TargetGallery(image) ==
    [Id |-> GalleryId(1), Title |-> <<"a">>, JpTitle |-> <<>>, Lang |-> <<>>, Files |-> <<image>>, Url |-> galleryUrls[1]]
TargetDir == <<"d", "/", "n", "u", "l", "l", "/", "a">>

InitTarget ==
    /\ InitPipeline
    /\ conf.Retry = 0
    /\ img \in TargetImages
    /\ url = <<>>
    /\ IdleUnique
    /\ IdleName
    /\ fileName = NoResult

\* the download of img has succeeded: the FileName of the WriteJob made for its job
MakeTarget ==
    /\ fileName = NoResult
    /\ fileName' = MakeWriteJob(MakeJob(TargetGallery(img), 1, TargetDir)).FileName
    /\ UNCHANGED <<pipelineVars, urlVars, uniqueVars, nameVars>>

\* the same stored name with other variant flags, and the FileName made for it
ToggleTargetFlags ==
    /\ fileName # NoResult
    /\ \E w \in FlagValues, a \in FlagValues :
         /\ img' = [img EXCEPT !.HasWebp = w, !.HasAvif = a]
         /\ img' # img
    /\ fileName' = MakeWriteJob(MakeJob(TargetGallery(img'), 1, TargetDir)).FileName
    /\ UNCHANGED <<url, pipelineVars, uniqueVars, nameVars>>

NextTarget == MakeTarget \/ ToggleTargetFlags

SpecTarget == InitTarget /\ [][NextTarget]_vars

\* every goroutine that can take a step eventually takes one (the Go scheduler is fair)
AllWorkers == UNION {1..c.ThreadNum : c \in Confs}

FairSpec ==
    /\ Spec
    /\ WF_vars(Producer)
    /\ WF_vars(Main)
    /\ \A w \in AllWorkers : WF_vars(DownloadImageWorker(w))
    /\ WF_vars(WriteWorker)

\* ------------------------------------------------------------------- claims

Urls == 1..NumUrls

\* the step in which main logs "Download Finish"
ReportsCompletion == mainPc = "poll" /\ mainPc' = "done"

\* jobs that are in the job queue or in the hands of a worker
JobsInSystem == {queue[k] : k \in 1..Len(queue)} \cup {workerJob[w][1] : w \in {x \in Workers : workerJob[x] # <<>>}}

\* C1: when every directory creation succeeded, a finished run has emitted exactly one
\* DownloadJob per image of every gallery whose resolution succeeded, and none for a
\* gallery whose resolution failed
C1_OneJobPerImage ==
    (mainPc = "done" /\ ~mkdirFailed) =>
        \A u \in Urls :
            /\ resolution[u].st = "ok" => emitted[u] = resolution[u].n
            /\ resolution[u].st = "failed" => emitted[u] = 0

\* C2: main reports completion only in a state where downloadingCount is zero and
\* downloadStartCount is greater than zero
C2_FinishNeedsStarted ==
    [][ReportsCompletion => (downloadingCount = 0 /\ downloadStartCount > 0)]_vars

\* C3: when main reports completion no DownloadJob waits in the job queue, no worker is
\* in the middle of a download, and no WriteJob waits in the write queue or is being written
C3_QuiescentAtFinish ==
    [][ReportsCompletion =>
         /\ queue = <<>>
         /\ \A w \in Workers : workerJob[w] = <<>>
         /\ writeQueue = <<>>
         /\ writerJob = <<>>]_vars

\* C4: under fair scheduling every run eventually reports completion (a run ended by a
\* panic is not held against the claim)
C4_EventuallyFinishes == <>(mainPc = "done" \/ panicked)

\* C5: a job gets at most conf.Retry + 1 GETs; every successful GET makes exactly one
\* WriteJob and ends the job; the job is abandoned and logged, once, exactly when
\* conf.Retry + 1 GETs have failed; a job that has ended made one WriteJob or one log line
C5_RetryBound ==
    \A w \in Workers :
        /\ hist[w].gets <= conf.Retry + 1
        /\ hist[w].wjs = hist[w].gets - hist[w].fails
        /\ hist[w].wjs <= 1
        /\ hist[w].logs = (IF hist[w].fails = conf.Retry + 1 THEN 1 ELSE 0)
        /\ workerPc[w] = "attempt" => (hist[w].wjs = 0 /\ hist[w].logs = 0)
        /\ (workerPc[w] \in {"check", "checkStart"} /\ hist[w].gets > 0) =>
               hist[w].wjs + hist[w].logs = 1

\* C5 witness: with conf.Retry = 2 a job failed twice and succeeded on the third GET
C5_Witness ==
    \E w \in Workers :
        conf.Retry = 2 /\ hist[w].gets = 3 /\ hist[w].fails = 2 /\ hist[w].wjs = 1

\* C6: a failed resolution queues no gallery and emits no job, and it keeps no other
\* gallery from being fanned out: once main has left the fan-out loop of a run in which a
\* resolution failed, no resolved gallery with images is left waiting in galleryQueue
C6_FailureIsolated ==
    /\ \A u \in Urls : resolution[u].st = "failed" => emitted[u] = 0
    /\ \A k \in 1..Len(galleryQueue) : resolution[galleryQueue[k].Url].st = "ok"
    /\ (mainPc \in {"poll", "done"} /\ \E u \in Urls : resolution[u].st = "failed") =>
           \A k \in 1..Len(galleryQueue) : galleryQueue[k].Files = <<>>

\* C7: every DownloadJob placed on the job queue is received at most once, and no job is
\* left in the queue when every download worker has terminated
C7_ConsumedExactlyOnce ==
    /\ \A u \in Urls : \A n \in 1..MaxFiles : takes[u][n] <= 1
    /\ ~(queue # <<>> /\ \A w \in Workers : workerPc[w] = "exit")

\* C8: a gallery whose directory <title> was already given to an earlier gallery of the run
\* gets <title> - <id>, any other gallery gets <title>; jobs of two galleries never share
\* a destination directory
C8_CollisionSuffix ==
    /\ [](\A j1 \in JobsInSystem : \A j2 \in JobsInSystem :
            j1.Gallery.Url # j2.Gallery.Url => j1.SavePath # j2.SavePath)
    /\ [][(mainPc = "mkdir" /\ mainPc' = "emit") =>
            savePath' = (IF BasePath(gallery[1]) \in fs
                         THEN SuffixedPath(gallery[1])
                         ELSE BasePath(gallery[1]))]_vars

\* the parts of the hash ImageUrl cuts out, for a hash of at least three characters
H1Of(image) == SubSeq(image.Hash, Len(image.Hash), Len(image.Hash))
H2Of(image) == SubSeq(image.Hash, Len(image.Hash) - 2, Len(image.Hash) - 1)

\* the call has returned a URL for img
UrlReturned == url # <<>> /\ url # Panic

\* h2 of img parses as a hexadecimal value in 0..255
H2Parses == ~ParseInt16(H2Of(img)).err /\ ParseInt16(H2Of(img)).val \in 0..255

\* the subdomain letter the shard rule gives for g
ShardLetter(g) == Letters[((IF g < 9 THEN 1 ELSE g) % (IF g < 48 THEN 2 ELSE 3)) + 1]

\* directory, extension and prefix suffix by the priority avif > webp > original
PriorityVariant(image) ==
    IF image.HasAvif = 1 THEN [directory |-> <<"a", "v", "i", "f">>, ext |-> <<".", "a", "v", "i", "f">>, suffix |-> "a"]
    ELSE IF image.HasWebp = 1 THEN [directory |-> <<"w", "e", "b", "p">>, ext |-> <<".", "w", "e", "b", "p">>, suffix |-> "a"]
    ELSE [directory |-> <<"i", "m", "a", "g", "e", "s">>, ext |-> Ext(image.Name), suffix |-> "b"]

\* https://<letter><suffix>.hitomi.la/<directory>/<h1>/<h2>/<hash><extension>
UrlOf(letter, suffix, directory, image, ext) ==
    <<"h", "t", "t", "p", "s", ":", "/", "/", letter, suffix, ".", "h", "i", "t", "o", "m", "i", ".", "l", "a", "/">>
        \o directory \o <<"/">> \o H1Of(image) \o <<"/">> \o H2Of(image) \o <<"/">> \o image.Hash \o ext

\* the part /<h1>/<h2>/<hash> of a URL whose directory and extension have the given lengths
HashPart(u, image) ==
    SubSeq(u, 22 + Len(PriorityVariant(image).directory), Len(u) - Len(PriorityVariant(image).ext))

\* C9: when h2 parses as g in 0..255 the subdomain letter is 'a' + (g' mod n), with n = 2
\* for g < 0x30 and 3 otherwise and g' = 1 for g < 0x09 and g otherwise; it is a, b or c,
\* a or b when g < 0x30, b for h2 = "00"; the URL has the stated layout
C9_ShardLetter ==
    (UrlReturned /\ H2Parses) =>
        LET g == ParseInt16(H2Of(img)).val
        IN  /\ url[9] = ShardLetter(g)
            /\ url[9] \in {"a", "b", "c"}
            /\ g < 48 => url[9] \in {"a", "b"}
            /\ H2Of(img) = <<"0", "0">> => url[9] = "b"
            /\ \E suffix \in {"a", "b"} :
               \E directory \in {<<"a", "v", "i", "f">>, <<"w", "e", "b", "p">>, <<"i", "m", "a", "g", "e", "s">>} :
               \E ext \in {<<".", "a", "v", "i", "f">>, <<".", "w", "e", "b", "p">>, Ext(img.Name)} :
                   url = UrlOf(ShardLetter(g), suffix, directory, img, ext)

\* C9 witness: the URL of a hash ending in "00" and one more character has been returned
C9_Witness == UrlReturned /\ H2Of(img) = <<"0", "0">> /\ url[9] = "b"

\* C10 as stated, for every image that gets a URL: directory, extension and prefix suffix
\* follow the priority avif > webp > original, and a change of the flags changes neither
\* the subdomain letter nor /<h1>/<h2>/<hash>
C10_VariantPriorityAnyHash ==
    /\ [](UrlReturned =>
            url = UrlOf(url[9], PriorityVariant(img).suffix, PriorityVariant(img).directory,
                        img, PriorityVariant(img).ext))
    /\ [][(UrlReturned /\ UrlReturned' /\ img'.Hash = img.Hash /\ img'.Name = img.Name) =>
            (url'[9] = url[9] /\ HashPart(url', img') = HashPart(url, img))]_vars

\* C10, amended: the same for every image whose h2 parses as a hexadecimal number
C10_VariantPriority ==
    /\ []((UrlReturned /\ ~ParseInt16(H2Of(img)).err) =>
            url = UrlOf(url[9], PriorityVariant(img).suffix, PriorityVariant(img).directory,
                        img, PriorityVariant(img).ext))
    /\ [][(UrlReturned /\ UrlReturned' /\ ~ParseInt16(H2Of(img)).err
              /\ img'.Hash = img.Hash /\ img'.Name = img.Name) =>
            (url'[9] = url[9] /\ HashPart(url', img') = HashPart(url, img))]_vars

\* C10 witness: both flags are 1 and the URL returned is the avif one
C10_Witness ==
    /\ UrlReturned
    /\ ~ParseInt16(H2Of(img)).err
    /\ img.HasAvif = 1 /\ img.HasWebp = 1
    /\ url[10] = "a"
    /\ SubSeq(url, 22, 25) = <<"a", "v", "i", "f">>

\* the sequence s has no element twice
NoDuplicates(s) == \A a \in 1..Len(s) : \A b \in 1..Len(s) : s[a] = s[b] => a = b

\* the elements of the sequence s
Elements(s) == {s[k] : k \in 1..Len(s)}

\* the position of the first occurrence of x in s
FirstOccurrence(x, s) == CHOOSE k \in 1..Len(s) : s[k] = x /\ \A j \in 1..(k - 1) : s[j] # x

\* the call has returned a list for strSlice
UniqueReturned == list # NoResult

\* C11: Unique returns a sequence without duplicates that holds exactly the distinct
\* elements of its input, ordered by their first occurrence in the input; a duplicate-free
\* input is returned unchanged, and Unique applied to its own result returns that result
C11_UniqueFirstOccurrence ==
    /\ [](UniqueReturned =>
            /\ NoDuplicates(list)
            /\ Elements(list) = Elements(strSlice)
            /\ \A a \in 1..Len(list) : \A b \in 1..Len(list) :
                   a < b => FirstOccurrence(list[a], strSlice) < FirstOccurrence(list[b], strSlice)
            /\ NoDuplicates(strSlice) => list = strSlice)
    /\ [][(UniqueReturned /\ strSlice' = list) => list' = list]_vars

\* C11 witness: a line that recurs after another line has been dropped from the result
C11_Witness ==
    /\ UniqueReturned
    /\ Len(strSlice) >= 3
    /\ strSlice[1] = strSlice[3] /\ strSlice[1] # strSlice[2]
    /\ Len(list) = 2

\* the nine characters ValidFileName is to remove
NineChars == {":", "/", "\\", "?", "*", "\"", "<", ">", "|"}

\* the string s without its characters from NineChars, the others in their order
RECURSIVE WithoutNine(_)
WithoutNine(s) ==
    IF s = <<>> THEN <<>>
    ELSE IF Head(s) \in NineChars THEN WithoutNine(Tail(s))
    ELSE <<Head(s)>> \o WithoutNine(Tail(s))

\* the call has returned a name for title
NameReturned == validName # NoResult

\* C12: ValidFileName returns its input with every occurrence of : / \ ? * " < > | removed
\* and every other character kept in its place; the result holds none of the nine
\* characters, and ValidFileName applied to its own result returns that result
C12_ValidFileNameRemovesNine ==
    /\ [](NameReturned =>
            /\ validName = WithoutNine(title)
            /\ \A k \in 1..Len(validName) : validName[k] \notin NineChars)
    /\ [][(NameReturned /\ title' = validName) => validName' = validName]_vars

\* C12 witness: of a backslash, a letter and a slash only the letter is returned
C12_Witness == NameReturned /\ title = <<"\\", "a", "/">> /\ validName = <<"a">>

\* workers holding a job whose download can still succeed
Downloading == {w \in Workers : workerJob[w] # <<>> /\ ~ImageUrlPanics(workerJob[w][1].Image)}

\* C13: a successful download makes one WriteJob and an abandoned one none, and every
\* WriteJob on the write queue is taken and written by the write worker: the write worker
\* has not terminated while a WriteJob is queued or a download that can still succeed is
\* outstanding
C13_WriterOutlivesWork ==
    /\ \A w \in Workers : hist[w].wjs <= 1 /\ (hist[w].logs = 1 => hist[w].wjs = 0)
    /\ writerPc = "exit" => (writeQueue = <<>> /\ Downloading = {})

\* the number of jobs the download workers have received
RECURSIVE SumTakes(_, _)
SumTakes(u, n) ==
    IF u = 0 THEN 0
    ELSE IF n = 0 THEN SumTakes(u - 1, MaxFiles)
    ELSE takes[u][n] + SumTakes(u, n - 1)

\* workers whose position is one of the given ones
WorkersAt(pcs) == {w \in Workers : workerPc[w] \in pcs}

\* C14: every job a worker begins adds one to downloadingCount and one to
\* downloadStartCount, and one is taken from downloadingCount when the job is abandoned or
\* when its WriteJob has been handled: downloadingCount counts the jobs begun and neither
\* abandoned nor handled, downloadStartCount the jobs begun; downloadingCount is never
\* negative and downloadStartCount never decreases
C14_CountersBalanced ==
    /\ [](downloadingCount >= 0)
    /\ [](downloadingCount =
             Cardinality(WorkersAt({"incStart", "attempt"})) + Len(writeQueue) + Len(writerJob))
    /\ [](downloadStartCount = SumTakes(NumUrls, MaxFiles) - Cardinality(WorkersAt({"inc", "incStart"})))
    /\ [][downloadStartCount' >= downloadStartCount]_vars

\* C14 witness: two jobs were begun and both have ended, the second by its WriteJob
\* having been handled by the write worker; downloadingCount is back at zero
C14_Witness ==
    /\ downloadStartCount = 2
    /\ downloadingCount = 0
    /\ \E w \in Workers : workerPc[w] \in {"check", "checkStart"} /\ hist[w].wjs = 1
    /\ writeQueue = <<>>
    /\ writerJob = <<>>

\* the step in which DownloadGallery makes the directory with the id suffix: the first
\* MkdirAll failed with an already-exists error and the retry succeeded
RetrySucceeds ==
    /\ mainPc = "mkdir"
    /\ SuffixedPath(gallery[1]) \notin fs
    /\ SuffixedPath(gallery[1]) \in fs'

\* C15: when the first directory creation fails with an already-exists error and the retry
\* with the id suffix succeeds, DownloadGallery goes on to emit its jobs with the suffixed
\* directory as destination; the gallery is skipped only when the retry fails too or the
\* first error is another one
C15_RetryEmitsJobs ==
    [][RetrySucceeds => (mainPc' = "emit" /\ savePath' = SuffixedPath(gallery[1]))]_vars

\* the step in which the write worker writes the WriteJob it holds
Writes == writerPc = "write" /\ writerPc' = "check"

\* C16: the bytes the write worker writes for a WriteJob are the body of the response
\* whose success made that WriteJob: no later download changes them between the moment
\* the WriteJob is sent and the moment it is written
C16_WritesOwnBody ==
    [][Writes => writerJob[1].Content = writerJob[1].Response]_vars

\* the stored name without its extension, the part from the last dot that Ext gives
Stem(name) == SubSeq(name, 1, Len(name) - Len(Ext(name)))

\* the stored name with only its extension replaced, by the priority avif > webp > original
SwappedName(image) ==
    IF image.HasAvif = 1 THEN Stem(image.Name) \o <<".", "a", "v", "i", "f">>
    ELSE IF image.HasWebp = 1 THEN Stem(image.Name) \o <<".", "w", "e", "b", "p">>
    ELSE image.Name

\* C17: the target path of a WriteJob is the destination directory, a slash, and the
\* stored file name with only its extension replaced by .avif for an avif variant, else by
\* .webp for a webp variant, else unchanged; what precedes the final extension is kept, for
\* names with more than one dot too
C17_TargetPath ==
    fileName # NoResult => fileName = TargetDir \o <<"/">> \o SwappedName(img)

\* C18: no condition of one gallery or one image ends the process: whatever metadata a
\* resolution returns (an image whose hash has fewer than three characters or whose h2 is
\* no hexadecimal number included) and whatever resolution, directory, download or write
\* fails, the run goes on; once the pipeline runs, no goroutine has panicked
C18_NeverAborts == ~panicked

\* the step in which main receives a gallery, and the one in which it sends a job
ReceivesGallery == gallery = <<>> /\ gallery' # <<>>
SendsJob == emitted' # emitted

C20_ExitNeedsStarted ==
    /\ []((writerPc = "exit" \/ \E w \in Workers : workerPc[w] = "exit") => downloadStartCount > 0)
    /\ [][\A w \in Workers :
            /\ (workerPc[w] # "exit" /\ workerPc'[w] = "exit") =>
                   (workerPc[w] = "checkStart" /\ downloadStartCount > 0)
            /\ (workerPc[w] # "checkStart" /\ workerPc'[w] = "checkStart") =>
                   (workerPc[w] = "check" /\ downloadingCount = 0)
            /\ (workerPc[w] = "checkStart" /\ downloadStartCount = 0 /\ workerPc'[w] # "checkStart") =>
                   workerPc'[w] = "select"]_vars
    /\ [][/\ (writerPc # "exit" /\ writerPc' = "exit") =>
                 (writerPc = "checkStart" /\ downloadStartCount > 0)
          /\ (writerPc # "checkStart" /\ writerPc' = "checkStart") =>
                 (writerPc = "check" /\ downloadingCount = 0)
          /\ (writerPc = "checkStart" /\ downloadStartCount = 0 /\ writerPc' # "checkStart") =>
                 writerPc' = "select"]_vars

\* C20 witness: a job was begun and ended, and the download worker and the write worker
\* have both terminated
C20_Witness ==
    /\ writerPc = "exit"
    /\ \E w \in Workers : workerPc[w] = "exit"
    /\ downloadStartCount = 1
    /\ downloadingCount = 0

====
